---- MODULE Spec2Model ----
(***************************************************************************)
(* Model of pkg/flavourclusterwide/flavourclusterwide.go: the scheduler    *)
(* plugin FlavourClusterWide.  The state is the plugin object (cache,      *)
(* cacheMutex, lastUpdated), the wall clock, and the position of every     *)
(* goroutine that is inside Score or PostBind.  The Kubernetes API server  *)
(* is the environment: each List call either fails or returns some list.   *)
(***************************************************************************)
EXTENDS Integers, Sequences, FiniteSets, TLC

\* ------------------------------------------------------------------------
\* Bounds of the model
\* ------------------------------------------------------------------------
MaxPods == 2        \* longest pod list a List call returns
MaxCount == 3       \* PostBind is not started once the counts add up to this
MaxTime == 60       \* the clock stops here (seconds since construction)

\* ------------------------------------------------------------------------
\* Program constants
\* ------------------------------------------------------------------------
TTL == 60           \* 1*time.Minute, in seconds
MaxScore == 100     \* return 100, ...
MinScore == 0       \* return 0, ...
NoMin == -1         \* minPods := -1

Procs == {"g1", "g2"}                \* goroutines of the scheduler
Nodes == {"A", "B"}                  \* node names of the cluster
Workers == {"A"}                     \* nodes labelled node-role.kubernetes.io/worker
Flavours == {"gold", "silver"}       \* non-empty values of the label
NoLabel == ""                        \* pod.Labels[f.labelName] of a pod without the label
Unassigned == ""                     \* pod.Spec.NodeName of a pod that is not bound
TickSteps == {TTL \div 2}            \* the clock advances in steps of half a TTL

\* ZeroTime taken as the time of construction
ZeroTime_AtStart == 0 * TTL

ZeroTime == 0 - TTL \* time.Time{}: far in the past, time.Since(it) is never below the TTL

\* A pod as the plugin sees it: the node it is bound to and the value of the label.
\* Bound pods of either flavour on either node, a pod that is not bound yet (the
\* first skip of both passes) and a bound pod whose label is empty (the second).
PodKind == <<
    [node |-> "A", flavour |-> "gold"],
    [node |-> "A", flavour |-> "silver"],
    [node |-> "B", flavour |-> "gold"],
    [node |-> "B", flavour |-> "silver"],
    [node |-> Unassigned, flavour |-> "gold"],
    [node |-> "A", flavour |-> NoLabel] >>

\* The pod lists Pods("").List may return.  The counts do not depend on the order
\* of the list, so one order of every multiset of at most MaxPods pods is listed.
Ordered(s) == \A i \in 1..(Len(s) - 1) : s[i] <= s[i + 1]
PodLists ==
    UNION {{[i \in 1..k |-> PodKind[s[i]]] :
              s \in {t \in [1..k -> 1..Len(PodKind)] : Ordered(t)}} : k \in 0..MaxPods}

\* The node lists Nodes().List may return (names only).
NodeLists == SUBSET Workers

\* ------------------------------------------------------------------------
\* Go maps
\* ------------------------------------------------------------------------
EmptyMap == [x \in {} |-> 0]

\* m[k] = v
Put(m, k, v) == [x \in DOMAIN m \cup {k} |-> IF x = k THEN v ELSE m[x]]

\* c[n][f] read: a missing row or entry reads as 0
Count(c, n, f) ==
    IF n \in DOMAIN c /\ f \in DOMAIN c[n] THEN c[n][f] ELSE 0

\* c[n][f] = v, the row exists
PutCell(c, n, f, v) == Put(c, n, Put(c[n], f, v))

\* ------------------------------------------------------------------------
\* updateCacheIfNeeded: the rebuild
\* ------------------------------------------------------------------------
\* IsFresh with the comparison turned around
IsFresh_Flipped(clock, marker) == clock - marker > TTL

\* time.Since(f.lastUpdated) < 1*time.Minute
IsFresh(clock, marker) == clock - marker < TTL

\* First pass: the flavours of the pods that are bound and carry a value.
RECURSIVE discoveredFlavours(_)
discoveredFlavours(pods) ==
    IF pods = << >> THEN {}
    ELSE LET pod == Head(pods)
             rest == discoveredFlavours(Tail(pods))
         IN IF pod.node = Unassigned THEN rest
            ELSE IF pod.flavour # NoLabel THEN rest \cup {pod.flavour}
            ELSE rest

\* Every listed node gets a row with 0 for every discovered flavour.
InitRows(nodes, flavours) == [n \in nodes |-> [fl \in flavours |-> 0]]

\* CountPod without the skip of a pod that is not bound
CountPod_NoSkip(c, pod) ==
    IF pod.flavour = NoLabel THEN c
    ELSE LET c1 == IF pod.node \in DOMAIN c THEN c ELSE Put(c, pod.node, EmptyMap)
             c2 == IF pod.flavour \in DOMAIN c1[pod.node] THEN c1
                   ELSE PutCell(c1, pod.node, pod.flavour, 0)
         IN PutCell(c2, pod.node, pod.flavour, c2[pod.node][pod.flavour] + 1)

\* Second pass, one pod.
CountPod(c, pod) ==
    IF pod.node = Unassigned THEN c
    ELSE IF pod.flavour = NoLabel THEN c
    ELSE LET c1 == IF pod.node \in DOMAIN c THEN c ELSE Put(c, pod.node, EmptyMap)
             c2 == IF pod.flavour \in DOMAIN c1[pod.node] THEN c1
                   ELSE PutCell(c1, pod.node, pod.flavour, 0)
         IN PutCell(c2, pod.node, pod.flavour, c2[pod.node][pod.flavour] + 1)

\* Second pass over the list, in order.
RECURSIVE CountPods(_, _)
CountPods(c, pods) ==
    IF pods = << >> THEN c
    ELSE CountPods(CountPod(c, Head(pods)), Tail(pods))

\* newCache
Rebuild(nodes, pods) ==
    CountPods(InitRows(nodes, discoveredFlavours(pods)), pods)

\* ------------------------------------------------------------------------
\* PostBind: the body under the lock
\* ------------------------------------------------------------------------
\* PostBindCache whose loop stores 0 in every row, the entry there or not
PostBindCache_ZeroesAll(c, nodeName, flavour) ==
    LET c1 == IF nodeName \in DOMAIN c THEN c ELSE Put(c, nodeName, EmptyMap)
        c2 == IF flavour \in DOMAIN c1[nodeName] THEN c1
              ELSE LET c1a == PutCell(c1, nodeName, flavour, 0)
                   IN [n \in DOMAIN c1a |-> Put(c1a[n], flavour, 0)]
    IN PutCell(c2, nodeName, flavour, c2[nodeName][flavour] + 1)

\* PostBindCache without the loop over the other rows
PostBindCache_NoBackfill(c, nodeName, flavour) ==
    LET c1 == IF nodeName \in DOMAIN c THEN c ELSE Put(c, nodeName, EmptyMap)
        c2 == IF flavour \in DOMAIN c1[nodeName] THEN c1
              ELSE PutCell(c1, nodeName, flavour, 0)
    IN PutCell(c2, nodeName, flavour, c2[nodeName][flavour] + 1)

\* PostBindCache storing 1 where the code increments
PostBindCache_SetOne(c, nodeName, flavour) ==
    LET c1 == IF nodeName \in DOMAIN c THEN c ELSE Put(c, nodeName, EmptyMap)
        c2 == IF flavour \in DOMAIN c1[nodeName] THEN c1
              ELSE LET c1a == PutCell(c1, nodeName, flavour, 0)
                   IN [n \in DOMAIN c1a |->
                         IF flavour \in DOMAIN c1a[n] THEN c1a[n]
                         ELSE Put(c1a[n], flavour, 0)]
    IN PutCell(c2, nodeName, flavour, 1)

PostBindCache(c, nodeName, flavour) ==
    LET c1 == IF nodeName \in DOMAIN c THEN c ELSE Put(c, nodeName, EmptyMap)
        c2 == IF flavour \in DOMAIN c1[nodeName] THEN c1
              ELSE LET c1a == PutCell(c1, nodeName, flavour, 0)
                   IN [n \in DOMAIN c1a |->
                         IF flavour \in DOMAIN c1a[n] THEN c1a[n]
                         ELSE Put(c1a[n], flavour, 0)]
    IN PutCell(c2, nodeName, flavour, c2[nodeName][flavour] + 1)

\* ------------------------------------------------------------------------
\* Score: the body under the read lock
\* ------------------------------------------------------------------------
\* The loop over f.cache: rows without the flavour are skipped.
RECURSIVE MinLoop(_, _, _, _)
MinLoop(c, rows, flavour, minPods) ==
    IF rows = {} THEN minPods
    ELSE LET n == CHOOSE x \in rows : TRUE
             m == IF flavour \in DOMAIN c[n]
                  THEN IF minPods = NoMin \/ c[n][flavour] < minPods
                       THEN c[n][flavour] ELSE minPods
                  ELSE minPods
         IN MinLoop(c, rows \ {n}, flavour, m)

minPodsOf(c, flavour) == MinLoop(c, DOMAIN c, flavour, NoMin)

\* ScoreValue comparing with <= where the code compares with ==
ScoreValue_AtMost(c, flavour, nodeName) ==
    IF Count(c, nodeName, flavour) <= minPodsOf(c, flavour) THEN MaxScore ELSE MinScore

ScoreValue(c, flavour, nodeName) ==
    IF Count(c, nodeName, flavour) = minPodsOf(c, flavour) THEN MaxScore ELSE MinScore

\* ScoreResult with an error status for a node without a row
ScoreResult_ErrUnknown(c, flavour, nodeName) ==
    [score |-> ScoreValue(c, flavour, nodeName),
     code |-> IF nodeName \in DOMAIN c THEN "Success" ELSE "Error", msg |-> ""]

\* What Score returns for a pod that carries the label.
ScoreResult(c, flavour, nodeName) ==
    [score |-> ScoreValue(c, flavour, nodeName), code |-> "Success", msg |-> ""]

\* What Score returns for a pod without the label.
NotAppliedResult ==
    [score |-> 0, code |-> "Success", msg |-> "scoring is not applied"]

NoResult == [score |-> 0, code |-> "none", msg |-> ""]
NoArg == [flavour |-> NoLabel, node |-> ""]

\* ------------------------------------------------------------------------
\* State
\* ------------------------------------------------------------------------
VARIABLES
    cache,          \* f.cache
    lastUpdated,    \* f.lastUpdated
    writer,         \* f.cacheMutex: the goroutine holding Lock, or ""
    readers,        \* f.cacheMutex: the goroutines holding RLock
    now,            \* the wall clock
    pc,             \* where each goroutine is
    arg,            \* the (flavour, nodeName) of the call a goroutine is in
    ret,            \* what the goroutine's Score call returned
    nodesL,         \* the local variable nodes of the goroutine holding Lock
    \* What a caller that makes one call after the other observes (SpecSeq only).
    outcome,        \* how updateCacheIfNeeded ended in the call under way
    test,           \* the clock and the marker at its staleness test
    pre,            \* the table and the marker when the call began
    prev,           \* the Score call before the one under way
    \* What SpecRec records of a placement and of a refresh.
    placed,         \* the cell the last PostBind raised and the count it left
    fetched,        \* what the List calls of the last refresh returned
    \* What SpecRace records of Score calls that wait for the lock together.
    race,           \* the staleness tests of these calls, in the order of the lock
    \* The API server as SpecBind keeps it.
    inv,            \* the number of gold pods bound to each node
    hook            \* the node of the bound pod whose PostBind has not run yet, or ""

progVars == <<cache, lastUpdated, writer, readers, now, pc, arg, ret, nodesL>>
obsVars == <<outcome, test, pre, prev, placed, fetched, race, inv, hook>>
vars == <<cache, lastUpdated, writer, readers, now, pc, arg, ret, nodesL,
          outcome, test, pre, prev, placed, fetched, race, inv, hook>>

NoProc == ""
NoTest == [at |-> 0, marker |-> 0]
NoPre == [valid |-> FALSE, table |-> EmptyMap, marker |-> 0]
NoPrev == [valid |-> FALSE, at |-> 0, failed |-> FALSE, bound |-> FALSE, same |-> FALSE]
NoPlaced == [valid |-> FALSE, node |-> "", flavour |-> NoLabel, count |-> 0]
NoFetched == [valid |-> FALSE, nodes |-> {}, pods |-> << >>]
NoRace == [on |-> FALSE, tests |-> << >>]
NoPods == [n \in Nodes |-> 0]
NoHook == ""

\* the counts of the table, added up
RECURSIVE SumRow(_, _)
SumRow(row, keys) ==
    IF keys = {} THEN 0
    ELSE LET k == CHOOSE x \in keys : TRUE IN row[k] + SumRow(row, keys \ {k})

RECURSIVE SumTable(_, _)
SumTable(c, rows) ==
    IF rows = {} THEN 0
    ELSE LET n == CHOOSE x \in rows : TRUE
         IN SumRow(c[n], DOMAIN c[n]) + SumTable(c, rows \ {n})

InPostBind == {p \in Procs : pc[p] \in {"pbLock", "pbBody"}}
InCall == {p \in Procs : pc[p] # "idle"}

Init ==
    /\ cache = EmptyMap
    /\ lastUpdated = ZeroTime
    /\ writer = NoProc
    /\ readers = {}
    /\ now = 0
    /\ pc = [p \in Procs |-> "idle"]
    /\ arg = [p \in Procs |-> NoArg]
    /\ ret = [p \in Procs |-> NoResult]
    /\ nodesL = {}
    /\ outcome = "none"
    /\ test = NoTest
    /\ pre = NoPre
    /\ prev = NoPrev
    /\ placed = NoPlaced
    /\ fetched = NoFetched
    /\ race = NoRace
    /\ inv = NoPods
    /\ hook = NoHook

\* ------------------------------------------------------------------------
\* Score
\* ------------------------------------------------------------------------
\* ScoreNoLabel without the early return
ScoreNoLabel_GoesOn(p, n) ==
    /\ pc[p] = "idle"
    /\ pc' = [pc EXCEPT ![p] = "update"]
    /\ arg' = [arg EXCEPT ![p] = [flavour |-> NoLabel, node |-> n]]
    /\ UNCHANGED <<cache, lastUpdated, writer, readers, now, ret, nodesL>>

\* Score is called for a pod without the label: it returns at once.
ScoreNoLabel(p, n) ==
    /\ pc[p] = "idle"
    /\ pc' = [pc EXCEPT ![p] = "done"]
    /\ arg' = [arg EXCEPT ![p] = [flavour |-> NoLabel, node |-> n]]
    /\ ret' = [ret EXCEPT ![p] = NotAppliedResult]
    /\ UNCHANGED <<cache, lastUpdated, writer, readers, now, nodesL>>

\* Score is called for a pod with the label: it goes on to updateCacheIfNeeded.
ScoreCall(p, fl, n) ==
    /\ pc[p] = "idle"
    /\ pc' = [pc EXCEPT ![p] = "update"]
    /\ arg' = [arg EXCEPT ![p] = [flavour |-> fl, node |-> n]]
    /\ UNCHANGED <<cache, lastUpdated, writer, readers, now, ret, nodesL>>

\* UpdateLock that does not wait for the lock to be free
UpdateLock_NoWait(p) ==
    /\ pc[p] = "update"
    /\ writer' = p
    /\ pc' = [pc EXCEPT ![p] = "check"]
    /\ UNCHANGED <<cache, lastUpdated, readers, now, arg, ret, nodesL>>

\* f.cacheMutex.Lock() in updateCacheIfNeeded
UpdateLock(p) ==
    /\ pc[p] = "update"
    /\ writer = NoProc /\ readers = {}
    /\ writer' = p
    /\ pc' = [pc EXCEPT ![p] = "check"]
    /\ UNCHANGED <<cache, lastUpdated, readers, now, arg, ret, nodesL>>

\* CacheValid returning without the deferred Unlock
CacheValid_KeepsLock(p) ==
    /\ pc[p] = "check"
    /\ IsFresh(now, lastUpdated)
    /\ pc' = [pc EXCEPT ![p] = "rlock"]
    /\ UNCHANGED <<cache, lastUpdated, writer, readers, now, arg, ret, nodesL>>

\* CacheValid dropping the table it found valid
CacheValid_Clears(p) ==
    /\ pc[p] = "check"
    /\ IsFresh(now, lastUpdated)
    /\ cache' = EmptyMap
    /\ writer' = NoProc
    /\ pc' = [pc EXCEPT ![p] = "rlock"]
    /\ UNCHANGED <<lastUpdated, readers, now, arg, ret, nodesL>>

\* The cache is still valid: return (the deferred Unlock runs).
CacheValid(p) ==
    /\ pc[p] = "check"
    /\ IsFresh(now, lastUpdated)
    /\ writer' = NoProc
    /\ pc' = [pc EXCEPT ![p] = "rlock"]
    /\ UNCHANGED <<cache, lastUpdated, readers, now, arg, ret, nodesL>>

\* ListNodesFail dropping the table it could not refresh
ListNodesFail_Clears(p) ==
    /\ pc[p] = "check"
    /\ ~IsFresh(now, lastUpdated)
    /\ cache' = EmptyMap
    /\ writer' = NoProc
    /\ pc' = [pc EXCEPT ![p] = "rlock"]
    /\ UNCHANGED <<lastUpdated, readers, now, arg, ret, nodesL>>

\* Nodes().List fails: return.
ListNodesFail(p) ==
    /\ pc[p] = "check"
    /\ ~IsFresh(now, lastUpdated)
    /\ writer' = NoProc
    /\ pc' = [pc EXCEPT ![p] = "rlock"]
    /\ UNCHANGED <<cache, lastUpdated, readers, now, arg, ret, nodesL>>

\* Nodes().List returns the worker nodes.
ListNodesOk(p, nodes) ==
    /\ pc[p] = "check"
    /\ ~IsFresh(now, lastUpdated)
    /\ nodesL' = nodes
    /\ pc' = [pc EXCEPT ![p] = "listPods"]
    /\ UNCHANGED <<cache, lastUpdated, writer, readers, now, arg, ret>>

\* ListPodsFail setting the marker all the same
ListPodsFail_Stamps(p) ==
    /\ pc[p] = "listPods"
    /\ lastUpdated' = now
    /\ writer' = NoProc
    /\ nodesL' = {}
    /\ pc' = [pc EXCEPT ![p] = "rlock"]
    /\ UNCHANGED <<cache, readers, now, arg, ret>>

\* ListPodsFail returning without the deferred Unlock
ListPodsFail_KeepsLock(p) ==
    /\ pc[p] = "listPods"
    /\ nodesL' = {}
    /\ pc' = [pc EXCEPT ![p] = "rlock"]
    /\ UNCHANGED <<cache, lastUpdated, writer, readers, now, arg, ret>>

\* Pods("").List fails: return.
ListPodsFail(p) ==
    /\ pc[p] = "listPods"
    /\ writer' = NoProc
    /\ nodesL' = {}
    /\ pc' = [pc EXCEPT ![p] = "rlock"]
    /\ UNCHANGED <<cache, lastUpdated, readers, now, arg, ret>>

\* RefreshOk keeping the rows of the old table that the new one does not have
RefreshOk_Merges(p, pods) ==
    /\ pc[p] = "listPods"
    /\ cache' = LET new == Rebuild(nodesL, pods)
                IN [n \in DOMAIN cache \cup DOMAIN new |->
                      IF n \in DOMAIN new THEN new[n] ELSE cache[n]]
    /\ lastUpdated' = now
    /\ writer' = NoProc
    /\ nodesL' = {}
    /\ pc' = [pc EXCEPT ![p] = "rlock"]
    /\ UNCHANGED <<readers, now, arg, ret>>

\* Pods("").List returns: the cache is rebuilt and swapped in.
RefreshOk(p, pods) ==
    /\ pc[p] = "listPods"
    /\ cache' = Rebuild(nodesL, pods)
    /\ lastUpdated' = now
    /\ writer' = NoProc
    /\ nodesL' = {}
    /\ pc' = [pc EXCEPT ![p] = "rlock"]
    /\ UNCHANGED <<readers, now, arg, ret>>

\* f.cacheMutex.RLock() in Score
ScoreRLock(p) ==
    /\ pc[p] = "rlock"
    /\ writer = NoProc
    /\ readers' = readers \cup {p}
    /\ pc' = [pc EXCEPT ![p] = "read"]
    /\ UNCHANGED <<cache, lastUpdated, writer, now, arg, ret, nodesL>>

\* ScoreRead storing the 0 it reads for a row or an entry that is missing
ScoreRead_MakesEntry(p) ==
    /\ pc[p] = "read"
    /\ ret' = [ret EXCEPT ![p] = ScoreResult(cache, arg[p].flavour, arg[p].node)]
    /\ cache' = LET c1 == IF arg[p].node \in DOMAIN cache THEN cache
                          ELSE Put(cache, arg[p].node, EmptyMap)
                IN IF arg[p].flavour \in DOMAIN c1[arg[p].node] THEN c1
                   ELSE PutCell(c1, arg[p].node, arg[p].flavour, 0)
    /\ readers' = readers \ {p}
    /\ pc' = [pc EXCEPT ![p] = "done"]
    /\ UNCHANGED <<lastUpdated, writer, now, arg, nodesL>>

\* The minimum is computed and compared; return (the deferred RUnlock runs).
ScoreRead(p) ==
    /\ pc[p] = "read"
    /\ ret' = [ret EXCEPT ![p] = ScoreResult(cache, arg[p].flavour, arg[p].node)]
    /\ readers' = readers \ {p}
    /\ pc' = [pc EXCEPT ![p] = "done"]
    /\ UNCHANGED <<cache, lastUpdated, writer, now, arg, nodesL>>

\* The caller has taken the result.
ScoreReturn(p) ==
    /\ pc[p] = "done"
    /\ pc' = [pc EXCEPT ![p] = "idle"]
    /\ arg' = [arg EXCEPT ![p] = NoArg]
    /\ ret' = [ret EXCEPT ![p] = NoResult]
    /\ UNCHANGED <<cache, lastUpdated, writer, readers, now, nodesL>>

\* ------------------------------------------------------------------------
\* PostBind
\* ------------------------------------------------------------------------
\* PostBindNoLabel making the row of the node before it returns
PostBindNoLabel_MakesRow(p, n) ==
    /\ pc[p] = "idle"
    /\ cache' = IF n \in DOMAIN cache THEN cache ELSE Put(cache, n, EmptyMap)
    /\ UNCHANGED <<lastUpdated, writer, readers, now, pc, arg, ret, nodesL>>

\* PostBind is called for a pod without the label: it returns at once.
PostBindNoLabel(p, n) ==
    /\ pc[p] = "idle"
    /\ UNCHANGED progVars

\* PostBind is called for a pod with the label.
PostBindCall(p, fl, n) ==
    /\ pc[p] = "idle"
    /\ SumTable(cache, DOMAIN cache) + Cardinality(InPostBind) < MaxCount
    /\ pc' = [pc EXCEPT ![p] = "pbLock"]
    /\ arg' = [arg EXCEPT ![p] = [flavour |-> fl, node |-> n]]
    /\ UNCHANGED <<cache, lastUpdated, writer, readers, now, ret, nodesL>>

\* PostBindLock that does not wait for the lock to be free
PostBindLock_NoWait(p) ==
    /\ pc[p] = "pbLock"
    /\ writer' = p
    /\ pc' = [pc EXCEPT ![p] = "pbBody"]
    /\ UNCHANGED <<cache, lastUpdated, readers, now, arg, ret, nodesL>>

\* f.cacheMutex.Lock() in PostBind
PostBindLock(p) ==
    /\ pc[p] = "pbLock"
    /\ writer = NoProc /\ readers = {}
    /\ writer' = p
    /\ pc' = [pc EXCEPT ![p] = "pbBody"]
    /\ UNCHANGED <<cache, lastUpdated, readers, now, arg, ret, nodesL>>

\* PostBindBody setting the marker as a refresh does
PostBindBody_Stamps(p) ==
    /\ pc[p] = "pbBody"
    /\ cache' = PostBindCache(cache, arg[p].node, arg[p].flavour)
    /\ lastUpdated' = now
    /\ writer' = NoProc
    /\ pc' = [pc EXCEPT ![p] = "idle"]
    /\ arg' = [arg EXCEPT ![p] = NoArg]
    /\ UNCHANGED <<readers, now, ret, nodesL>>

\* The row, the entry, the back-fill and the increment; the deferred Unlock runs.
PostBindBody(p) ==
    /\ pc[p] = "pbBody"
    /\ cache' = PostBindCache(cache, arg[p].node, arg[p].flavour)
    /\ writer' = NoProc
    /\ pc' = [pc EXCEPT ![p] = "idle"]
    /\ arg' = [arg EXCEPT ![p] = NoArg]
    /\ UNCHANGED <<lastUpdated, readers, now, ret, nodesL>>

\* ------------------------------------------------------------------------
\* The clock
\* ------------------------------------------------------------------------
Tick(d) ==
    /\ now + d <= MaxTime
    /\ now' = now + d
    /\ UNCHANGED <<cache, lastUpdated, writer, readers, pc, arg, ret, nodesL>>

\* ------------------------------------------------------------------------
\* Spec: the goroutines of Procs call Score and PostBind concurrently
\* ------------------------------------------------------------------------
Next ==
    \/ \E p \in Procs, n \in Nodes : ScoreNoLabel(p, n) /\ UNCHANGED obsVars
    \/ \E p \in Procs, fl \in Flavours, n \in Nodes :
          ScoreCall(p, fl, n) /\ UNCHANGED obsVars
    \/ \E p \in Procs : UpdateLock(p) /\ UNCHANGED obsVars
    \/ \E p \in Procs : CacheValid(p) /\ UNCHANGED obsVars
    \/ \E p \in Procs : ListNodesFail(p) /\ UNCHANGED obsVars
    \/ \E p \in Procs, nodes \in NodeLists : ListNodesOk(p, nodes) /\ UNCHANGED obsVars
    \/ \E p \in Procs : ListPodsFail(p) /\ UNCHANGED obsVars
    \/ \E p \in Procs, pods \in PodLists : RefreshOk(p, pods) /\ UNCHANGED obsVars
    \/ \E p \in Procs : ScoreRLock(p) /\ UNCHANGED obsVars
    \/ \E p \in Procs : ScoreRead(p) /\ UNCHANGED obsVars
    \/ \E p \in Procs : ScoreReturn(p) /\ UNCHANGED obsVars
    \/ \E p \in Procs, n \in Nodes : PostBindNoLabel(p, n) /\ UNCHANGED obsVars
    \/ \E p \in Procs, fl \in Flavours, n \in Nodes :
          PostBindCall(p, fl, n) /\ UNCHANGED obsVars
    \/ \E p \in Procs : PostBindLock(p) /\ UNCHANGED obsVars
    \/ \E p \in Procs : PostBindBody(p) /\ UNCHANGED obsVars
    \/ \E d \in TickSteps : Tick(d) /\ UNCHANGED obsVars

Spec == Init /\ [][Next]_vars

\* ------------------------------------------------------------------------
\* SpecSeq: one caller makes one call after the other; what it observes of
\* each call is recorded
\* ------------------------------------------------------------------------
Caller == "g1"

\* the call begins: the table and the marker it finds
Begun == [valid |-> TRUE, table |-> cache, marker |-> lastUpdated]

\* the staleness test is made now
Tested == [at |-> now, marker |-> lastUpdated]

NextSeq ==
    \/ \E n \in Nodes :
          /\ ScoreNoLabel(Caller, n)
          /\ pre' = Begun
          /\ UNCHANGED <<inv, hook, race, outcome, test, prev, placed, fetched>>
    \/ \E fl \in Flavours, n \in Nodes :
          /\ ScoreCall(Caller, fl, n)
          /\ pre' = Begun
          /\ UNCHANGED <<inv, hook, race, outcome, test, prev, placed, fetched>>
    \/ UpdateLock(Caller) /\ UNCHANGED obsVars
    \/ /\ CacheValid(Caller)
       /\ outcome' = "valid"
       /\ test' = Tested
       /\ UNCHANGED <<inv, hook, race, pre, prev, placed, fetched>>
    \/ /\ ListNodesFail(Caller)
       /\ outcome' = "failed"
       /\ test' = Tested
       /\ UNCHANGED <<inv, hook, race, pre, prev, placed, fetched>>
    \/ \E nodes \in NodeLists :
          /\ ListNodesOk(Caller, nodes)
          /\ outcome' = "listed"
          /\ test' = Tested
          /\ UNCHANGED <<inv, hook, race, pre, prev, placed, fetched>>
    \/ /\ ListPodsFail(Caller)
       /\ outcome' = "failed"
       /\ UNCHANGED <<inv, hook, race, test, pre, prev, placed, fetched>>
    \/ \E pods \in PodLists :
          /\ RefreshOk(Caller, pods)
          /\ outcome' = "rebuilt"
          /\ pre' = NoPre
          /\ prev' = [prev EXCEPT !.same = prev.same /\ cache' = cache]
          /\ UNCHANGED <<inv, hook, race, test, placed, fetched>>
    \/ ScoreRLock(Caller) /\ UNCHANGED obsVars
    \/ ScoreRead(Caller) /\ UNCHANGED obsVars
    \/ /\ ScoreReturn(Caller)
       /\ prev' = IF outcome = "none" THEN prev
                  ELSE [valid |-> TRUE, at |-> test.at, failed |-> outcome = "failed",
                        bound |-> FALSE, same |-> TRUE]
       /\ outcome' = "none"
       /\ test' = NoTest
       /\ pre' = NoPre
       /\ UNCHANGED <<inv, hook, race, placed, fetched>>
    \/ \E n \in Nodes : PostBindNoLabel(Caller, n) /\ UNCHANGED obsVars
    \/ \E fl \in Flavours, n \in Nodes :
          /\ PostBindCall(Caller, fl, n)
          /\ pre' = Begun
          /\ UNCHANGED <<inv, hook, race, outcome, test, prev, placed, fetched>>
    \/ PostBindLock(Caller) /\ UNCHANGED obsVars
    \/ /\ PostBindBody(Caller)
       /\ pre' = NoPre
       /\ prev' = [prev EXCEPT !.bound = prev.valid, !.same = FALSE]
       /\ UNCHANGED <<inv, hook, race, outcome, test, placed, fetched>>
    \/ \E d \in TickSteps : Tick(d) /\ UNCHANGED obsVars

SpecSeq == Init /\ [][NextSeq]_vars

\* ------------------------------------------------------------------------
\* What a pod list holds
\* ------------------------------------------------------------------------
\* the fetched pods that are bound to a node and carry the category-value
Carrying(pods, f) ==
    {i \in DOMAIN pods : pods[i].node # Unassigned /\ pods[i].flavour = f}

\* the fetched pods that are bound to the node and carry the category-value
CarryingOn(pods, n, f) == {i \in Carrying(pods, f) : pods[i].node = n}

\* the fetched pods that are bound to a node and carry a category-value
Counted(pods) == UNION {Carrying(pods, c) : c \in Flavours}

\* ------------------------------------------------------------------------
\* SpecRec: one caller makes one call after the other; the cell a PostBind
\* raised and the lists a refresh fetched are recorded
\* ------------------------------------------------------------------------
\* the cell PostBind has raised, read after the step
Placed ==
    [valid |-> TRUE, node |-> arg[Caller].node, flavour |-> arg[Caller].flavour,
     count |-> Count(cache', arg[Caller].node, arg[Caller].flavour)]

\* PostBind has returned at once for a pod without the label
Skipped(n) == [valid |-> FALSE, node |-> n, flavour |-> NoLabel, count |-> 0]

\* the node list and the pod list the rebuild is made of
Fetched(pods) == [valid |-> TRUE, nodes |-> nodesL, pods |-> pods]

NextRec ==
    \/ \E n \in Nodes : ScoreNoLabel(Caller, n) /\ UNCHANGED obsVars
    \/ \E fl \in Flavours, n \in Nodes : ScoreCall(Caller, fl, n) /\ UNCHANGED obsVars
    \/ UpdateLock(Caller) /\ UNCHANGED obsVars
    \/ /\ CacheValid(Caller)
       /\ outcome' = "valid"
       /\ UNCHANGED <<inv, hook, race, test, pre, prev, placed, fetched>>
    \/ /\ ListNodesFail(Caller)
       /\ outcome' = "failed"
       /\ UNCHANGED <<inv, hook, race, test, pre, prev, placed, fetched>>
    \/ \E nodes \in NodeLists :
          /\ ListNodesOk(Caller, nodes)
          /\ outcome' = "listed"
          /\ UNCHANGED <<inv, hook, race, test, pre, prev, placed, fetched>>
    \/ /\ ListPodsFail(Caller)
       /\ outcome' = "failed"
       /\ UNCHANGED <<inv, hook, race, test, pre, prev, placed, fetched>>
    \/ \E pods \in PodLists :
          /\ RefreshOk(Caller, pods)
          /\ outcome' = "rebuilt"
          /\ fetched' = Fetched(pods)
          /\ UNCHANGED <<inv, hook, race, test, pre, prev, placed>>
    \/ ScoreRLock(Caller) /\ UNCHANGED obsVars
    \/ ScoreRead(Caller) /\ UNCHANGED obsVars
    \/ /\ ScoreReturn(Caller)
       /\ outcome' = "none"
       /\ placed' = IF outcome = "none" THEN placed ELSE NoPlaced
       /\ fetched' = NoFetched
       /\ UNCHANGED <<inv, hook, race, test, pre, prev>>
    \/ \E n \in Nodes :
          /\ PostBindNoLabel(Caller, n)
          /\ placed' = Skipped(n)
          /\ UNCHANGED <<inv, hook, race, outcome, test, pre, prev, fetched>>
    \/ \E fl \in Flavours, n \in Nodes : PostBindCall(Caller, fl, n) /\ UNCHANGED obsVars
    \/ PostBindLock(Caller) /\ UNCHANGED obsVars
    \/ /\ PostBindBody(Caller)
       /\ placed' = Placed
       /\ UNCHANGED <<inv, hook, race, outcome, test, pre, prev, fetched>>
    \/ \E d \in TickSteps : Tick(d) /\ UNCHANGED obsVars

SpecRec == Init /\ [][NextRec]_vars

\* ------------------------------------------------------------------------
\* SpecRace: the goroutines of Procs call Score concurrently; when all of them
\* wait for the lock of updateCacheIfNeeded while the marker is stale, their
\* staleness tests are recorded in the order they are made
\* ------------------------------------------------------------------------
\* the Score call of p begins: with it every goroutine waits for the lock
RaceBegun(p) ==
    IF (\A q \in Procs \ {p} : pc[q] = "update") /\ ~IsFresh(now, lastUpdated)
    THEN [on |-> TRUE, tests |-> << >>]
    ELSE race

\* p makes its staleness test now, and goes on as result says
RaceTested(p, result) ==
    IF race.on
    THEN [race EXCEPT !.tests = Append(@, [proc |-> p, at |-> now, result |-> result,
                                           until |-> now])]
    ELSE race

\* the query of the last test ends now
RaceQueried(result) ==
    IF race.on
    THEN [race EXCEPT !.tests[Len(race.tests)].result = result,
                      !.tests[Len(race.tests)].until = now]
    ELSE race

\* updateCacheIfNeeded takes no argument: the racing calls all score one pod on
\* one of the nodes
RaceFlavours == {"gold"}

NextRace ==
    \/ \E p \in Procs, fl \in RaceFlavours, n \in Nodes :
          /\ ScoreCall(p, fl, n)
          /\ race' = RaceBegun(p)
          /\ UNCHANGED <<inv, hook, outcome, test, pre, prev, placed, fetched>>
    \/ \E p \in Procs : UpdateLock(p) /\ UNCHANGED obsVars
    \/ \E p \in Procs :
          /\ CacheValid(p)
          /\ race' = RaceTested(p, "fresh")
          /\ UNCHANGED <<inv, hook, outcome, test, pre, prev, placed, fetched>>
    \/ \E p \in Procs :
          /\ ListNodesFail(p)
          /\ race' = RaceTested(p, "failed")
          /\ UNCHANGED <<inv, hook, outcome, test, pre, prev, placed, fetched>>
    \/ \E p \in Procs, nodes \in NodeLists :
          /\ ListNodesOk(p, nodes)
          /\ race' = RaceTested(p, "listed")
          /\ UNCHANGED <<inv, hook, outcome, test, pre, prev, placed, fetched>>
    \/ \E p \in Procs :
          /\ ListPodsFail(p)
          /\ race' = RaceQueried("failed")
          /\ UNCHANGED <<inv, hook, outcome, test, pre, prev, placed, fetched>>
    \/ \E p \in Procs, pods \in PodLists :
          /\ RefreshOk(p, pods)
          /\ race' = RaceQueried("rebuilt")
          /\ UNCHANGED <<inv, hook, outcome, test, pre, prev, placed, fetched>>
    \/ \E p \in Procs : ScoreRLock(p) /\ UNCHANGED obsVars
    \/ \E p \in Procs : ScoreRead(p) /\ UNCHANGED obsVars
    \/ \E p \in Procs :
          /\ ScoreReturn(p)
          /\ race' = NoRace
          /\ UNCHANGED <<inv, hook, outcome, test, pre, prev, placed, fetched>>
    \/ \E d \in TickSteps : Tick(d) /\ UNCHANGED obsVars

SpecRace == Init /\ [][NextRace]_vars

\* ------------------------------------------------------------------------
\* SpecLock: the goroutines of Procs call Score and PostBind concurrently for
\* pods of one flavour; nothing is recorded
\* ------------------------------------------------------------------------
\* the steps of goroutine p
StepOf(p) ==
    \/ \E fl \in RaceFlavours, n \in Nodes : ScoreCall(p, fl, n)
    \/ UpdateLock(p)
    \/ CacheValid(p)
    \/ ListNodesFail(p)
    \/ \E nodes \in NodeLists : ListNodesOk(p, nodes)
    \/ ListPodsFail(p)
    \/ \E pods \in PodLists : RefreshOk(p, pods)
    \/ ScoreRLock(p)
    \/ ScoreRead(p)
    \/ ScoreReturn(p)
    \/ \E fl \in RaceFlavours, n \in Nodes : PostBindCall(p, fl, n)
    \/ PostBindLock(p)
    \/ PostBindBody(p)

NextLock ==
    \/ \E p \in Procs : StepOf(p) /\ UNCHANGED obsVars
    \/ \E d \in TickSteps : Tick(d) /\ UNCHANGED obsVars

SpecLock == Init /\ [][NextLock]_vars

\* ------------------------------------------------------------------------
\* SpecLive: the goroutines of Procs call Score and PostBind concurrently for
\* gold pods on node A; they keep running, the List calls return and the lock
\* is granted to a goroutine that keeps asking for it
\* ------------------------------------------------------------------------
\* whether a call returns does not depend on what the lists hold: Pods("").List
\* returns no pod or one
LivePodLists == {pods \in PodLists : Len(pods) <= 1 /\ Counted(pods) = DOMAIN pods}

\* the steps of p that begin a call
Calling(p) ==
    \/ \E fl \in RaceFlavours, n \in Workers : ScoreCall(p, fl, n)
    \/ \E fl \in RaceFlavours, n \in Workers : PostBindCall(p, fl, n)

\* the steps of p that wait for nothing: a List call returns (a list or an
\* error), the body under a lock runs to its return
Running(p) ==
    \/ CacheValid(p)
    \/ ListNodesFail(p)
    \/ \E nodes \in NodeLists : ListNodesOk(p, nodes)
    \/ ListPodsFail(p)
    \/ \E pods \in LivePodLists : RefreshOk(p, pods)
    \/ ScoreRead(p)
    \/ ScoreReturn(p)
    \/ PostBindBody(p)

\* the steps of p that wait for f.cacheMutex
Locking(p) ==
    \/ UpdateLock(p)
    \/ ScoreRLock(p)
    \/ PostBindLock(p)

NextLive ==
    \/ \E p \in Procs : Calling(p) /\ UNCHANGED obsVars
    \/ \E p \in Procs : Running(p) /\ UNCHANGED obsVars
    \/ \E p \in Procs : Locking(p) /\ UNCHANGED obsVars
    \/ \E d \in TickSteps : Tick(d) /\ UNCHANGED obsVars

Fairness ==
    \A p \in Procs :
        /\ WF_vars(Running(p) /\ UNCHANGED obsVars)
        /\ SF_vars(Locking(p) /\ UNCHANGED obsVars)

SpecLive == Init /\ [][NextLive]_vars /\ Fairness

\* ------------------------------------------------------------------------
\* SpecBind: the API server holds the gold pods that are bound; the binding
\* goroutine commits a placement and then runs PostBind for it, while the
\* caller makes Score calls whose refresh lists what the API server holds
\* ------------------------------------------------------------------------
Binder == "g2"

\* what Pods("").List returns: the bound pods, node by node
InvList(i) ==
    [k \in 1..(i["A"] + i["B"]) |->
        [node |-> IF k <= i["A"] THEN "A" ELSE "B", flavour |-> "gold"]]

\* the binding of a gold pod to node n is committed; its PostBind is to come
Commit(n) ==
    /\ hook = NoHook
    /\ pc[Binder] = "idle"
    /\ inv["A"] + inv["B"] < MaxPods
    /\ inv' = [inv EXCEPT ![n] = @ + 1]
    /\ hook' = n
    /\ UNCHANGED progVars

NextBind ==
    \/ \E n \in Nodes :
          /\ Commit(n)
          /\ UNCHANGED <<outcome, test, pre, prev, placed, fetched, race>>
    \/ /\ hook # NoHook
       /\ PostBindCall(Binder, "gold", hook)
       /\ UNCHANGED obsVars
    \/ PostBindLock(Binder) /\ UNCHANGED obsVars
    \/ /\ PostBindBody(Binder)
       /\ hook' = NoHook
       /\ UNCHANGED <<outcome, test, pre, prev, placed, fetched, race, inv>>
    \/ \E fl \in RaceFlavours, n \in Nodes : ScoreCall(Caller, fl, n) /\ UNCHANGED obsVars
    \/ UpdateLock(Caller) /\ UNCHANGED obsVars
    \/ CacheValid(Caller) /\ UNCHANGED obsVars
    \/ ListNodesFail(Caller) /\ UNCHANGED obsVars
    \/ \E nodes \in NodeLists : ListNodesOk(Caller, nodes) /\ UNCHANGED obsVars
    \/ ListPodsFail(Caller) /\ UNCHANGED obsVars
    \/ RefreshOk(Caller, InvList(inv)) /\ UNCHANGED obsVars
    \/ ScoreRLock(Caller) /\ UNCHANGED obsVars
    \/ ScoreRead(Caller) /\ UNCHANGED obsVars
    \/ ScoreReturn(Caller) /\ UNCHANGED obsVars
    \/ \E d \in TickSteps : Tick(d) /\ UNCHANGED obsVars

SpecBind == Init /\ [][NextBind]_vars

\* ------------------------------------------------------------------------
\* Properties
\* ------------------------------------------------------------------------
\* the category-values that appear in any row
AllFlavours(c) == UNION {DOMAIN c[n] : n \in DOMAIN c}

\* every row has an entry for every category-value that appears in any row
Uniform(c) == \A n \in DOMAIN c : DOMAIN c[n] = AllFlavours(c)

\* the rows that have an entry for the category-value
HasEntry(c, f) == {n \in DOMAIN c : f \in DOMAIN c[n]}

\* the target's count (0 without an entry) is the least of the recorded counts
IsMinimum(c, f, n) ==
    /\ \E m \in HasEntry(c, f) : c[m][f] = Count(c, n, f)
    /\ \A m \in HasEntry(c, f) : Count(c, n, f) <= c[m][f]

BinaryRule(c, f, n) == IF IsMinimum(c, f, n) THEN 100 ELSE 0

\* the caller's Score call has returned and the result is not taken yet
Returned == pc[Caller] = "done"
\* ... and the pod carried the label
ReturnedLabelled == Returned /\ arg[Caller].flavour # NoLabel
\* updateCacheIfNeeded has returned in the caller's Score call
Updated == pc[Caller] \in {"rlock", "read", "done"} /\ outcome # "none"

\* C1: in every reachable state every row of the cache has an entry for every
\* category-value that appears in any row.
C1_Uniformity == Uniform(cache)

\* the table {A:{gold:2}, B:{gold:5}, C:{gold:2}}
ExampleTable == [n \in {"A", "B", "C"} |-> [f \in {"gold"} |-> IF n = "B" THEN 5 ELSE 2]]

C3_AbsentIsZero ==
    (ReturnedLabelled
       /\ \E n \in DOMAIN cache : arg[Caller].flavour \notin DOMAIN cache[n])
    => ret[Caller].score =
          IF Count(cache, arg[Caller].node, arg[Caller].flavour) = 0 THEN 100 ELSE 0

\* C4: a Score call for a pod without the label returns 0 with the success status
\* "scoring is not applied", never enters updateCacheIfNeeded (no query, no lock)
\* and leaves the cache and the marker as they were when it began.
C4_NoLabel ==
    (Returned /\ arg[Caller].flavour = NoLabel) =>
        /\ ret[Caller].score = 0
        /\ ret[Caller].code = "Success"
        /\ ret[Caller].msg = "scoring is not applied"
        /\ outcome = "none"
        /\ writer = NoProc /\ readers = {}
        /\ pre.valid /\ cache = pre.table /\ lastUpdated = pre.marker

\* C4: such a call has returned while the marker of an earlier refresh is stale.
C4_Witness ==
    /\ Returned /\ arg[Caller].flavour = NoLabel
    /\ lastUpdated # ZeroTime
    /\ now - lastUpdated >= TTL

\* C5 as claimed: of two Score calls with the label, tested less than 1 minute
\* apart with no PostBind between them, the second issues no query and both read
\* the same table.
C5_WithinOneMinute ==
    (ReturnedLabelled /\ prev.valid /\ ~prev.bound /\ test.at - prev.at < TTL)
    => (outcome = "valid" /\ prev.same)

\* C5 as amended: of two Score calls with the label with no PostBind between them,
\* when the second makes its staleness test less than 1 minute after the last
\* successful refresh, it issues no query and both read the same table.
C5_WithinTTLOfRefresh ==
    (ReturnedLabelled /\ prev.valid /\ ~prev.bound /\ test.at - test.marker < TTL)
    => (outcome = "valid" /\ prev.same)

\* C5: the second call was tested later than the first and within the TTL of the
\* refresh.
C5_Witness ==
    /\ ReturnedLabelled /\ prev.valid /\ ~prev.bound
    /\ test.at - test.marker < TTL
    /\ test.at > prev.at

\* the table {A:{gold:0}}
GoldZero == [n \in {"A"} |-> [f \in {"gold"} |-> 0]]

\* C6: the body of PostBind raises the cell of its target and category by one and
\* changes no cell that existed; no other step than a PostBind body and a
\* successful refresh changes the table, so k calls without a refresh raise a
\* cell by k; three calls for (gold, A) on {A:{gold:0}} give A:{gold:3}.
C6_Increment ==
    [][/\ \A p \in Procs :
             (pc[p] = "pbBody" /\ pc'[p] = "idle") =>
                 /\ Count(cache', arg[p].node, arg[p].flavour)
                        = Count(cache, arg[p].node, arg[p].flavour) + 1
                 /\ \A m \in DOMAIN cache : \A g \in DOMAIN cache[m] :
                        (m # arg[p].node \/ g # arg[p].flavour) =>
                            /\ m \in DOMAIN cache'
                            /\ g \in DOMAIN cache'[m]
                            /\ cache'[m][g] = cache[m][g]
       /\ (\A p \in Procs : pc[p] \notin {"pbBody", "listPods"}) => cache' = cache
       /\ PostBindCache(PostBindCache(PostBindCache(GoldZero, "A", "gold"), "A", "gold"),
                        "A", "gold")["A"]["gold"] = 3
      ]_vars

\* C6: a cell holds more than any refresh of the model counts.
C6_Witness == \E n \in DOMAIN cache : \E f \in DOMAIN cache[n] : cache[n][f] > MaxPods

\* C7: when PostBind names a target without a row, the new row holds 0 for every
\* category-value already in the table and 1 for the recorded one.
C7_NewRow ==
    [][\A p \in Procs :
          (pc[p] = "pbBody" /\ pc'[p] = "idle" /\ arg[p].node \notin DOMAIN cache) =>
              cache'[arg[p].node]
                  = [g \in AllFlavours(cache) \cup {arg[p].flavour} |->
                        IF g = arg[p].flavour THEN 1 ELSE 0]
      ]_vars

\* C8: when a List call of a due refresh fails, the table and the marker are as
\* they were when the call began and the marker is still stale; the Score call
\* after a failed one queries again.
C8_FailedRefresh ==
    /\ (Updated /\ outcome = "failed") =>
          /\ pre.valid /\ cache = pre.table /\ lastUpdated = pre.marker
          /\ now - lastUpdated >= TTL
    /\ (Updated /\ prev.valid /\ prev.failed) => outcome \in {"failed", "rebuilt"}

\* C8: the refresh of a table built by an earlier refresh has failed.
C8_Witness ==
    /\ Returned /\ outcome = "failed"
    /\ lastUpdated # ZeroTime
    /\ cache # EmptyMap

\* C9: Score always returns the success status, and after a failed refresh the
\* score is the one the binary rule gives on the table the call found.
C9_ScoreAfterFailure ==
    Returned =>
        /\ ret[Caller].code = "Success"
        /\ outcome = "failed" =>
              /\ pre.valid
              /\ ret[Caller].score
                    = BinaryRule(pre.table, arg[Caller].flavour, arg[Caller].node)

\* C9: after a failed refresh Score returned 100 from a table that tells targets
\* apart.
C9_Witness ==
    /\ Returned /\ outcome = "failed"
    /\ ret[Caller].score = 100
    /\ \E m \in HasEntry(cache, arg[Caller].flavour) :
          cache[m][arg[Caller].flavour]
              > Count(cache, arg[Caller].node, arg[Caller].flavour)

\* C10: while the goroutines are inside concurrent calls, no step breaks the
\* uniformity of the table and every PostBind body adds its placement to the cell.
C10_Concurrent ==
    [][(\A p \in Procs : pc[p] # "idle") =>
          /\ Uniform(cache')
          /\ \A p \in Procs :
                (pc[p] = "pbBody" /\ pc'[p] = "idle") =>
                    Count(cache', arg[p].node, arg[p].flavour)
                        = Count(cache, arg[p].node, arg[p].flavour) + 1
      ]_vars

\* C11 as claimed: the cell of a placement that PostBind recorded before the Score
\* call began holds at least that placement when the call reads it, also when the
\* call has refreshed the table.
C11_PlacementVisible ==
    (ReturnedLabelled /\ placed.valid) =>
        Count(cache, placed.node, placed.flavour) >= 1

\* C11 as amended: when the Score call makes no successful refresh (the marker is
\* fresh or a List call fails), the cell holds the count PostBind left; when it
\* refreshes, the cell holds what the fetched pods give, the placement or not.
C11_VisibleUnlessRefreshed ==
    (ReturnedLabelled /\ placed.valid) =>
        /\ outcome \in {"valid", "failed"} =>
              /\ placed.count >= 1
              /\ Count(cache, placed.node, placed.flavour) = placed.count
        /\ outcome = "rebuilt" =>
              /\ fetched.valid
              /\ Count(cache, placed.node, placed.flavour)
                    = Count(Rebuild(fetched.nodes, fetched.pods), placed.node, placed.flavour)

\* C11: a Score call that found the marker fresh has read a cell that an earlier
\* PostBind had raised to 2 or more.
C11_Witness ==
    /\ ReturnedLabelled /\ placed.valid
    /\ outcome = "valid"
    /\ placed.count >= 2
    /\ arg[Caller].flavour = placed.flavour

\* C12: time.Since of the zero marker is never below the TTL, and the first Score
\* call with the label after construction finds the zero marker at its staleness
\* test and has issued the query (which failed or rebuilt the table) before it
\* reads the cache; so has every call that finds the zero marker.
C12_FirstCallQueries ==
    /\ ~IsFresh(now, ZeroTime)
    /\ (Updated /\ ~prev.valid) => test.marker = ZeroTime
    /\ (Updated /\ test.marker = ZeroTime) => outcome \in {"failed", "rebuilt"}

\* C12: the first Score call with the label comes after a PostBind and a wait, and
\* has rebuilt the table.
C12_Witness ==
    /\ ReturnedLabelled /\ ~prev.valid
    /\ outcome = "rebuilt"
    /\ test.at > 0

\* the Score call under way has rebuilt the table and returned
ReturnedRebuilt == ReturnedLabelled /\ outcome = "rebuilt" /\ fetched.valid

\* C13: after a successful refresh, Score returns 100 for every node when no
\* fetched pod that is bound carries the scored category-value, and when every
\* node holds the same number of pods with it.
C13_NoPodsOrEqual ==
    /\ (ReturnedRebuilt /\ Carrying(fetched.pods, arg[Caller].flavour) = {})
          => ret[Caller].score = 100
    /\ (ReturnedRebuilt
          /\ \A n, m \in Nodes :
                Cardinality(CarryingOn(fetched.pods, n, arg[Caller].flavour))
                  = Cardinality(CarryingOn(fetched.pods, m, arg[Caller].flavour)))
          => ret[Caller].score = 100

\* C14: in every reachable state every row of the cache belongs to a worker node,
\* and after a successful refresh to a node that Nodes().List returned.
C14_OnlyWorkers ==
    /\ DOMAIN cache \subseteq Workers
    /\ ReturnedRebuilt => DOMAIN cache \subseteq fetched.nodes

\* a node name and a category-value that no call and no List result of the model
\* ever brings into the table
OtherNode == "Z"
OtherFlavour == "bronze"

\* C15: a Score call returns 0 or 100 with the success status, whatever the table,
\* also for a target without a row and a category without an entry; on every
\* reachable table the binary rule gives 0 or 100 for every target and category,
\* those the table has never seen included.
C15_ScoreRange ==
    /\ Returned =>
          /\ ret[Caller].score \in {0, 100}
          /\ ret[Caller].code = "Success"
    /\ \A f \in Flavours \cup {OtherFlavour} : \A n \in Nodes \cup {OtherNode} :
          /\ ScoreResult(cache, f, n).score \in {0, 100}
          /\ ScoreResult(cache, f, n).code = "Success"

\* C15: Score has returned for a target without a row and a category without an
\* entry, from a table that is not empty.
C15_Witness ==
    /\ ReturnedLabelled
    /\ cache # EmptyMap
    /\ arg[Caller].node \notin DOMAIN cache
    /\ arg[Caller].flavour \notin AllFlavours(cache)

\* updateCacheIfNeeded has rebuilt the table in the Score call under way
Rebuilt == Updated /\ outcome = "rebuilt" /\ fetched.valid

\* C16: after a successful refresh every cell holds the number of fetched pods
\* that are bound to its node and carry its category-value (a cell that does not
\* exist counts as 0); there is no row for the empty node name and no entry for
\* the empty label, so a pod that is not bound adds to no cell.
C16_CellsCountFetched ==
    Rebuilt =>
        /\ \A t \in Nodes \cup {Unassigned} : \A c \in Flavours :
              Count(cache, t, c) = Cardinality(CarryingOn(fetched.pods, t, c))
        /\ Unassigned \notin DOMAIN cache
        /\ \A t \in DOMAIN cache : NoLabel \notin DOMAIN cache[t]
        /\ SumTable(cache, DOMAIN cache)
              = Cardinality(UNION {Carrying(fetched.pods, c) : c \in Flavours})

\* C16: the refresh has fetched a pod that is not bound next to a bound one of the
\* same category-value, and the cell of the bound one holds 1.
C16_Witness ==
    /\ Rebuilt
    /\ \E i, j \in DOMAIN fetched.pods :
          /\ fetched.pods[i].node = Unassigned
          /\ fetched.pods[j].node \in fetched.nodes
          /\ fetched.pods[i].flavour = fetched.pods[j].flavour
          /\ cache[fetched.pods[j].node][fetched.pods[j].flavour] = 1

\* C17: after a successful refresh the row of every node that Nodes().List
\* returned has an entry for every category-value that a fetched pod carries,
\* bound or not.
C17_EveryFetchedFlavour ==
    Rebuilt =>
        \A n \in fetched.nodes : \A i \in DOMAIN fetched.pods :
            fetched.pods[i].flavour # NoLabel =>
                /\ n \in DOMAIN cache
                /\ fetched.pods[i].flavour \in DOMAIN cache[n]

\* C19: a step changes the marker only when it is the end of a successful rebuild
\* by the goroutine that holds the lock, and the same step sets the marker to the
\* clock and replaces the table by one rebuilt from the listed nodes and the
\* fetched pods; the steps of PostBind, of a Score for a pod without the label, of a fresh
\* staleness test and of a failed List call leave the marker as it was.
C19_MarkerOnlyByRebuild ==
    [][/\ lastUpdated' # lastUpdated =>
             \E p \in Procs :
                 /\ pc[p] = "listPods" /\ pc'[p] = "rlock"
                 /\ writer = p
                 /\ lastUpdated' = now
                 /\ fetched'.valid /\ fetched'.nodes = nodesL
                 /\ cache' = Rebuild(nodesL, fetched'.pods)
       /\ \A p \in Procs :
             \/ pc[p] \in {"pbLock", "pbBody"} /\ pc'[p] # pc[p]
             \/ pc[p] = "idle" /\ pc'[p] # "idle"
             \/ pc[p] = "check" /\ pc'[p] = "rlock"
             \/ pc[p] = "listPods" /\ pc'[p] = "rlock" /\ outcome' = "failed"
             => lastUpdated' = lastUpdated
      ]_vars

\* C19: a rebuild made a TTL or more after construction has overwritten the
\* marker, after a PostBind that left it alone.
C19_Witness ==
    /\ Rebuilt
    /\ placed.valid
    /\ lastUpdated = now
    /\ lastUpdated >= TTL

\* C20: after a successful refresh the table is determined by the fetched lists
\* alone: its rows are the listed nodes and the nodes of the counted pods, the
\* entries of a row are the category-values of the counted pods (for a listed
\* node) and of the pods counted on it, every cell is the count of C16; the cell
\* an earlier PostBind raised holds what the fetched pods give (0 when the row or
\* the entry is gone).
C20_FullyReplaced ==
    Rebuilt =>
        /\ cache = Rebuild(fetched.nodes, fetched.pods)
        /\ DOMAIN cache
              = fetched.nodes \cup {fetched.pods[i].node : i \in Counted(fetched.pods)}
        /\ \A n \in DOMAIN cache :
              /\ DOMAIN cache[n]
                    = {fetched.pods[i].flavour :
                          i \in {j \in Counted(fetched.pods) :
                                    n \in fetched.nodes \/ fetched.pods[j].node = n}}
              /\ \A c \in DOMAIN cache[n] :
                    cache[n][c] = Cardinality(CarryingOn(fetched.pods, n, c))
        /\ placed.valid =>
              Count(cache, placed.node, placed.flavour)
                  = Cardinality(CarryingOn(fetched.pods, placed.node, placed.flavour))

\* C20: the row that an earlier PostBind created is not in the rebuilt table.
C20_Witness ==
    /\ Rebuilt
    /\ placed.valid
    /\ placed.count >= 1
    /\ placed.node \notin DOMAIN cache
    /\ cache # EmptyMap

\* every goroutine of the race has made its staleness test and ended its query
RaceDone ==
    /\ race.on
    /\ Len(race.tests) = Cardinality(Procs)
    /\ \A i \in DOMAIN race.tests : race.tests[i].result # "listed"

\* C18 as claimed: of the Score calls that wait for the lock together while the
\* marker is stale, the first to take the lock issues the query and every later
\* one finds the marker fresh and issues none.
C18_OnlyFirstQueries ==
    RaceDone =>
        /\ race.tests[1].result \in {"failed", "rebuilt"}
        /\ \A i \in 2..Len(race.tests) : race.tests[i].result = "fresh"

\* C18 as amended: a goroutine makes its staleness test and its query holding the
\* exclusive lock, so one at a time; of the Score calls that wait for the lock
\* together while the marker is stale, the first to take the lock issues the
\* query; a later one tests after that query has ended, issues none when the
\* query rebuilt the table less than 1 minute before its test, and issues the
\* query again when the query before it failed.
C18_SerializedTests ==
    /\ \A p \in Procs : pc[p] \in {"check", "listPods"} => writer = p
    /\ race.on =>
          \A i \in DOMAIN race.tests :
              /\ i = 1 => race.tests[i].result # "fresh"
              /\ i > 1 =>
                    /\ race.tests[i - 1].result # "listed"
                    /\ race.tests[i].at >= race.tests[i - 1].until
                    /\ race.tests[i - 1].result = "failed"
                          => race.tests[i].result # "fresh"
                    /\ (race.tests[i - 1].result = "rebuilt"
                          /\ race.tests[i].at - race.tests[i - 1].until < TTL)
                          => race.tests[i].result = "fresh"

\* C18: the first goroutine of a race has rebuilt the table and the second has
\* found the marker fresh.
C18_Witness ==
    /\ RaceDone
    /\ race.tests[1].result = "rebuilt"
    /\ race.tests[2].result = "fresh"
    /\ race.tests[1].proc # race.tests[2].proc

\* C21: when the body of PostBind records a category-value that no row of the
\* table has, the rows after the step are the rows before it and the target's,
\* every row has an entry for the category-value, the target's holds 1 and every
\* other row's holds 0, and no other entry has changed.
C21_BackFill ==
    [][\A p \in Procs :
          (pc[p] = "pbBody" /\ pc'[p] = "idle"
             /\ arg[p].flavour \notin AllFlavours(cache)) =>
              /\ DOMAIN cache' = DOMAIN cache \cup {arg[p].node}
              /\ \A n \in DOMAIN cache' :
                    /\ arg[p].flavour \in DOMAIN cache'[n]
                    /\ cache'[n][arg[p].flavour] = IF n = arg[p].node THEN 1 ELSE 0
              /\ \A n \in DOMAIN cache : \A g \in DOMAIN cache[n] :
                    g \in DOMAIN cache'[n] /\ cache'[n][g] = cache[n][g]
      ]_vars

\* C21: no refresh has been made, the last PostBind has left 1 in its cell and
\* another row holds 0 for its category-value next to a count of another.
C21_Witness ==
    /\ lastUpdated = ZeroTime
    /\ placed.valid /\ placed.count = 1
    /\ \E m \in DOMAIN cache \ {placed.node} :
          /\ placed.flavour \in DOMAIN cache[m]
          /\ cache[m][placed.flavour] = 0
          /\ \E g \in DOMAIN cache[m] : cache[m][g] >= 1

\* C22: the step of a PostBind call for a pod without the label changes neither
\* the table nor the marker, takes no lock and leaves every goroutine where it
\* was; no step that starts and ends with every goroutine outside a call changes
\* the table or the marker.
C22_NoLabelNoOp ==
    [][/\ ((\E n \in Nodes : placed' = Skipped(n)) /\ placed' # placed) =>
             /\ cache' = cache
             /\ lastUpdated' = lastUpdated
             /\ writer' = writer /\ readers' = readers
             /\ pc' = pc /\ ret' = ret
       /\ (\A p \in Procs : pc[p] = "idle" /\ pc'[p] = "idle") =>
             /\ cache' = cache
             /\ lastUpdated' = lastUpdated
      ]_vars

\* C22: PostBind has returned for a pod without the label bound to a node that has
\* no row, in a table with rows whose marker is stale.
C22_Witness ==
    /\ \E n \in Nodes : placed = Skipped(n) /\ n \notin DOMAIN cache
    /\ cache # EmptyMap
    /\ ~IsFresh(now, lastUpdated)

\* C23: a Score call that made no successful rebuild (no label, a fresh marker or
\* a failed List call) returns with the table and the marker it found, so with no
\* row and no entry added; it finds the marker fresh only less than 1 minute
\* after the last rebuild, and it rebuilds only when its staleness test found the
\* marker stale.
C23_ScoreNeverMutates ==
    /\ (Returned /\ outcome # "rebuilt") =>
          /\ pre.valid
          /\ cache = pre.table
          /\ lastUpdated = pre.marker
    /\ (Updated /\ outcome = "valid") => IsFresh(test.at, test.marker)
    /\ (Updated /\ outcome = "rebuilt") =>
          /\ ~IsFresh(test.at, test.marker)
          /\ lastUpdated >= test.at

\* C23: a Score call that found the marker fresh has returned for a target without
\* a row and a category without an entry, and the table still has neither.
C23_Witness ==
    /\ ReturnedLabelled /\ outcome = "valid"
    /\ cache # EmptyMap
    /\ arg[Caller].node \notin DOMAIN cache
    /\ \A n \in DOMAIN cache : arg[Caller].flavour \notin DOMAIN cache[n]

\* C24 as claimed: a goroutine whose Score call finds the marker fresh does not
\* hold the exclusive lock at its staleness test, and no Score call waits for the
\* lock while the marker is fresh.
C24_FreshTakesNoLock ==
    /\ \A p \in Procs : (pc[p] = "check" /\ IsFresh(now, lastUpdated)) => writer # p
    /\ \A p \in Procs :
          (pc[p] = "update" /\ IsFresh(now, lastUpdated)) => writer = NoProc

\* C24 as amended: a goroutine makes the staleness test and the query holding the
\* exclusive lock, whether the marker is fresh or stale, with no reader inside;
\* it has released it when it goes on to the shared lock, which it holds exactly
\* while it reads.
C24_TestUnderExclusiveLock ==
    \A p \in Procs :
        /\ pc[p] \in {"check", "listPods"} => (writer = p /\ readers = {})
        /\ pc[p] \notin {"check", "listPods"} => writer # p
        /\ p \in readers <=> pc[p] = "read"

\* C24: a goroutine holds the exclusive lock at its staleness test with the marker
\* fresh, and the other one waits for the lock.
C24_Witness ==
    \E p, q \in Procs :
        /\ pc[p] = "check" /\ writer = p
        /\ IsFresh(now, lastUpdated)
        /\ pc[q] = "update"

\* the goroutines between Lock and Unlock, and those between RLock and RUnlock
Writing == {p \in Procs : pc[p] \in {"check", "listPods", "pbBody"}}
Reading == {p \in Procs : pc[p] = "read"}

\* at most one goroutine writes, and none reads while one writes
Exclusive ==
    /\ Cardinality(Writing) <= 1
    /\ Writing # {} => Reading = {}
    /\ Writing = IF writer = NoProc THEN {} ELSE {writer}
    /\ Reading = readers

\* C25: in every state at most one goroutine is between Lock and Unlock, and then
\* none is between RLock and RUnlock; a step that changes the table or the marker
\* is the rebuild or the PostBind body of the goroutine that holds the exclusive
\* lock, and it is made while no goroutine holds the shared lock, so the table
\* does not change under a Score call that reads it; Score computes its result
\* holding the shared lock.
C25_LockDiscipline ==
    [][/\ Exclusive /\ Exclusive'
       /\ (cache' # cache \/ lastUpdated' # lastUpdated) =>
             /\ readers = {}
             /\ writer \in Procs
             /\ pc[writer] \in {"listPods", "pbBody"}
             /\ pc'[writer] # pc[writer]
             /\ writer' = NoProc
       /\ \A p \in Procs : ret'[p] # ret[p] /\ ret'[p].msg = "" /\ ret'[p].code = "Success"
             => p \in readers /\ writer = NoProc /\ cache' = cache
      ]_vars

\* C25: a goroutine is in the body of PostBind holding the exclusive lock while the
\* other one waits for the shared lock in Score.
C25_Witness ==
    \E p, q \in Procs :
        /\ pc[p] = "pbBody" /\ writer = p
        /\ pc[q] = "rlock"
        /\ readers = {}

\* C26: with goroutines that keep running, List calls that return and a lock
\* that is granted to whoever keeps asking, every Score call and every PostBind
\* call that has begun returns; and in every state in which a goroutine is inside
\* a call, some goroutine inside a call can take a step.
C26_CallsComplete ==
    /\ \A p \in Procs : (pc[p] # "idle") ~> (pc[p] = "idle")
    /\ [](InCall # {} => \E p \in InCall : ENABLED (Running(p) \/ Locking(p)))

\* C26: a goroutine waits for the exclusive lock in PostBind while the other one
\* holds it in a refresh whose Pods("").List has not returned yet.
C26_Witness ==
    \E p, q \in Procs :
        /\ pc[p] = "pbLock"
        /\ pc[q] = "listPods" /\ writer = q

\* C27: no cell holds more than the number of gold pods that are bound to its
\* node, also when a refresh has counted a bound pod before the PostBind of that
\* pod runs.
C27_NotCountedTwice ==
    \A n \in Nodes : Count(cache, n, "gold") <= inv[n]

\* C28: no count is negative, and a step that is not a successful rebuild (it
\* leaves the marker as it was) removes no row and no entry and lowers no count.
C28_OnlyGrows ==
    [][/\ \A n \in DOMAIN cache' : \A f \in DOMAIN cache'[n] : cache'[n][f] >= 0
       /\ lastUpdated' = lastUpdated =>
             \A n \in DOMAIN cache :
                 /\ n \in DOMAIN cache'
                 /\ \A f \in DOMAIN cache[n] :
                       /\ f \in DOMAIN cache'[n]
                       /\ cache'[n][f] >= cache[n][f]
      ]_vars

\* C28: after a rebuild and a PostBind on top of it, a Score call whose refresh
\* failed has returned and the cell still holds the count PostBind left.
C28_Witness ==
    /\ Returned /\ outcome = "failed"
    /\ lastUpdated # ZeroTime
    /\ placed.valid
    /\ Count(cache, placed.node, placed.flavour) = placed.count

====
